---------------------------- MODULE Spec2Model ----------------------------
(***************************************************************************)
(* Bed-constrained mesh decomposition (src/main.py), dovetail connector    *)
(* blocks (src/dovetailing.py) and the /process endpoint (src/app.py).     *)
(*                                                                         *)
(* Python floats are modelled as exact rationals [num, den] in lowest      *)
(* terms (den > 0): 0.95 is 19/20, 0.2 is 1/5, 1.05 is 21/20, 304.8 is     *)
(* 1524/5.  Rounding error of the floating-point unit is not modelled.     *)
(*                                                                         *)
(* The geometry kernel (trimesh / numpy-stl) is external: its answers      *)
(* (section areas, boolean intersections, volumes, watertightness) are     *)
(* inputs drawn from small sets.                                           *)
(***************************************************************************)
EXTENDS Integers, Sequences, FiniteSets, TLC

VARIABLES planner,   \* one run of the per-axis cut planning (main.py 6-74, 128)
          slicer,    \* one run of slice_with_validation (main.py 88-229)
          scaler,    \* the scaling step of slice_stl_with_connectors (main.py 89-102)
          dovetail,  \* one male/female pair of create_dovetail_geometry
          server     \* the /process endpoint of app.py

vars == <<planner, slicer, scaler, dovetail, server>>

-----------------------------------------------------------------------------
(* Exact rational arithmetic standing for Python float arithmetic.         *)

Abs(x) == IF x < 0 THEN -x ELSE x

RECURSIVE GCD(_, _)
GCD(a, b) == IF b = 0 THEN a ELSE GCD(b, a % b)

Norm(n, d) ==
    LET g == GCD(Abs(n), d)
    IN  [num |-> (IF n < 0 THEN -(Abs(n) \div g) ELSE n \div g), den |-> d \div g]

R(i) == [num |-> i, den |-> 1]
RAdd(a, b) == Norm(a.num * b.den + b.num * a.den, a.den * b.den)
RSub(a, b) == Norm(a.num * b.den - b.num * a.den, a.den * b.den)
RMul(a, b) == Norm(a.num * b.num, a.den * b.den)
RDiv(a, b) == Norm(a.num * b.den, a.den * b.num)      \* b > 0
RLe(a, b) == a.num * b.den <= b.num * a.den
RLt(a, b) == a.num * b.den < b.num * a.den
RMin(a, b) == IF RLe(a, b) THEN a ELSE b
Ceil(a) == -((-a.num) \div a.den)                     \* math.ceil

-----------------------------------------------------------------------------
(* analyze_cross_sections: main.py 6-32.                                   *)
(* kernel[j] is what the kernel answers at the j-th position:              *)
(*   kind "none"     mesh.section returns None            -> (pos, 0)       *)
(*   kind "noplanar" a section whose to_planar gives None -> no sample      *)
(*   kind "area"     a section with planar area .area     -> (pos, area)    *)

KNone == [kind |-> "none", area |-> 0]
KNoPlanar == [kind |-> "noplanar", area |-> 0]
KArea(a) == [kind |-> "area", area |-> a]

LinspacePos(min_val, max_val, samples, j) ==
    RAdd(min_val, RDiv(RMul(R(j), RSub(max_val, min_val)), R(samples - 1)))

RECURSIVE AnalyzeFrom(_, _, _, _, _)
AnalyzeFrom(min_val, max_val, samples, kernel, j) ==
    IF j >= samples THEN <<>>
    ELSE LET pos  == LinspacePos(min_val, max_val, samples, j)
             rest == AnalyzeFrom(min_val, max_val, samples, kernel, j + 1)
         IN  IF kernel[j].kind = "none" THEN <<[pos |-> pos, area |-> 0]>> \o rest
             ELSE IF kernel[j].kind = "noplanar" THEN rest
             ELSE <<[pos |-> pos, area |-> kernel[j].area]>> \o rest

analyze_cross_sections(min_val, max_val, samples, kernel) ==
    AnalyzeFrom(min_val, max_val, samples, kernel, 0)

-----------------------------------------------------------------------------
(* find_optimal_cuts: main.py 34-74.                                       *)

min_cuts(max_size, mesh_size) == Ceil(RDiv(mesh_size, max_size))

target_size(max_size, mesh_size) ==
    RDiv(mesh_size, R(min_cuts(max_size, mesh_size)))

\* a planner that forgets the cap at the extent (mutant of ideal_next_pos)
ideal_next_pos_uncapped(current_pos, target, mesh_size) ==
    RAdd(current_pos, target)

ideal_next_pos(current_pos, target, mesh_size) ==
    RMin(RAdd(current_pos, target), mesh_size)

search_start(ideal, target) == RSub(ideal, RMul(target, Norm(1, 5)))

search_end(ideal, target, mesh_size) ==
    RMin(RAdd(ideal, RMul(target, Norm(1, 5))), mesh_size)

section_window(sections, lo, hi) ==
    SelectSeq(sections, LAMBDA s : RLe(lo, s.pos) /\ RLe(s.pos, hi))

\* min(section_window, key=area): the first sample of least area
MinByArea(window) ==
    window[CHOOSE i \in 1..Len(window) :
              /\ \A j \in 1..Len(window) : window[i].area <= window[j].area
              /\ \A j \in 1..(i - 1) : window[j].area > window[i].area]

next_cut(sections, target, mesh_size, current_pos) ==
    LET ideal  == ideal_next_pos(current_pos, target, mesh_size)
        window == section_window(sections, search_start(ideal, target),
                                 search_end(ideal, target, mesh_size))
    IN  IF window = <<>> THEN ideal ELSE MinByArea(window).pos

\* main.py 63-64
AppendCut(cuts, current_pos, nxt) ==
    IF RLt(current_pos, nxt) THEN Append(cuts, nxt) ELSE cuts

\* main.py 67-69
EnsureEnd(cuts, mesh_size) ==
    IF RLt(cuts[Len(cuts)], mesh_size) THEN Append(cuts, mesh_size) ELSE cuts

\* The whole loop.  A pass that leaves current_pos where it was repeats
\* itself for ever: the call never returns, which <<>> stands for.
RECURSIVE CutLoop(_, _, _, _, _)
CutLoop(sections, target, mesh_size, cuts, current_pos) ==
    IF ~RLt(current_pos, mesh_size) THEN EnsureEnd(cuts, mesh_size)
    ELSE LET nxt == next_cut(sections, target, mesh_size, current_pos)
         IN  IF nxt = current_pos THEN <<>>
             ELSE CutLoop(sections, target, mesh_size,
                          AppendCut(cuts, current_pos, nxt), nxt)

find_optimal_cuts(sections, max_size, mesh_size) ==
    CutLoop(sections, target_size(max_size, mesh_size), mesh_size, <<R(0)>>, R(0))

\* the length of piece i of a plan
Interval(cuts, i) == RSub(cuts[i + 1], cuts[i])

\* main.py 123: required_cuts for one axis
required_cuts(dim, max_dimension) == Ceil(RDiv(dim, max_dimension))

\* main.py 128-130: the trivial plan of an axis that needs no cut
TrivialCuts(mesh_size) == <<R(0), mesh_size>>

-----------------------------------------------------------------------------
(* Inputs of the planner.                                                  *)

MaxSpecial == 1      \* samples whose kernel answer differs from the common area 1
SpecialAnswers == {KNone, KNoPlanar, KArea(2)}
SampleCounts == {10, 20}         \* samples=10 at main.py 114, default 20 at main.py 6
CutExtents == {9, 10}
CutMaxSizes == {1, 3, 4, 5, 6, 12}

RECURSIVE KernelAnswers(_, _)
KernelAnswers(samples, k) ==
    IF k = 0 THEN {[j \in 0..(samples - 1) |-> KArea(1)]}
    ELSE LET P == KernelAnswers(samples, k - 1)
         IN  P \cup {[f EXCEPT ![j] = a] :
                        f \in P, j \in 0..(samples - 1), a \in SpecialAnswers}

\* the parts of the program a specification does not run
PlannerIdle == [pc |-> "idle"]
SlicerIdle == [pc |-> "idle"]
ScalerIdle == [pc |-> "idle"]
DovetailIdle == [pc |-> "idle"]
ServerIdle == [pc |-> "idle"]

InitPlanner ==
    \E L \in CutExtents, M \in CutMaxSizes, n \in SampleCounts :
      \E kernel \in KernelAnswers(n, MaxSpecial) :
        planner = [pc |-> "analyze", mesh_size |-> R(L), max_size |-> R(M),
                   samples |-> n, kernel |-> kernel, sections |-> <<>>,
                   cuts |-> <<>>, current_pos |-> R(0)]

\* main.py 114-116 for one axis of the centred mesh (bounds 0 .. mesh_size)
Analyze ==
    /\ planner.pc = "analyze"
    /\ planner' = [planner EXCEPT
                     !.pc = "plan",
                     !.sections = analyze_cross_sections(R(0), planner.mesh_size,
                                                         planner.samples, planner.kernel)]
    /\ UNCHANGED <<slicer, scaler, dovetail, server>>

\* main.py 128, the axis needs no cut: the trivial plan
PlanTrivial ==
    /\ planner.pc = "plan"
    /\ ~(required_cuts(planner.mesh_size, planner.max_size) > 1)
    /\ planner' = [planner EXCEPT !.pc = "done",
                                  !.cuts = TrivialCuts(planner.mesh_size)]
    /\ UNCHANGED <<slicer, scaler, dovetail, server>>

\* main.py 128, the axis needs cuts: find_optimal_cuts is entered (36-44)
PlanStart ==
    /\ planner.pc = "plan"
    /\ required_cuts(planner.mesh_size, planner.max_size) > 1
    /\ planner' = [planner EXCEPT !.pc = "loop", !.cuts = <<R(0)>>,
                                  !.current_pos = R(0)]
    /\ UNCHANGED <<slicer, scaler, dovetail, server>>

\* one pass of the while loop, main.py 45-65
PlanStep ==
    /\ planner.pc = "loop"
    /\ RLt(planner.current_pos, planner.mesh_size)
    /\ LET nxt == next_cut(planner.sections,
                           target_size(planner.max_size, planner.mesh_size),
                           planner.mesh_size, planner.current_pos)
       IN  planner' = [planner EXCEPT
                         !.cuts = AppendCut(planner.cuts, planner.current_pos, nxt),
                         !.current_pos = nxt]
    /\ UNCHANGED <<slicer, scaler, dovetail, server>>

\* the loop is left, main.py 67-74
PlanFinish ==
    /\ planner.pc = "loop"
    /\ ~RLt(planner.current_pos, planner.mesh_size)
    /\ planner' = [planner EXCEPT !.pc = "done",
                                  !.cuts = EnsureEnd(planner.cuts, planner.mesh_size)]
    /\ UNCHANGED <<slicer, scaler, dovetail, server>>


InitCuts ==
    /\ InitPlanner
    /\ slicer = SlicerIdle
    /\ scaler = ScalerIdle
    /\ dovetail = DovetailIdle
    /\ server = ServerIdle

NextCuts == Analyze \/ PlanTrivial \/ PlanStart \/ PlanStep \/ PlanFinish

SpecCuts == InitCuts /\ [][NextCuts]_vars

-----------------------------------------------------------------------------
(* Scaling and centring: slice_stl_with_connectors, main.py 89-102.        *)
(* A mesh is seen through its axis-aligned bounds <<min, max>>, each a     *)
(* triple indexed 1 (x), 2 (y), 3 (z); Python's index 2 is index 3 here.   *)

FeetToMm == Norm(1524, 5)                              \* 304.8, main.py 93

AxisIndex(a) == CASE a = "x" -> 1 [] a = "y" -> 2 [] a = "z" -> 3

\* main.py 92: the extent is always read along Python's index 2 (z)
original_height(bounds) == RSub(bounds[2][3], bounds[1][3])

\* main.py 93
scale_factor(target_height, bounds) ==
    RDiv(RMul(R(target_height), FeetToMm), original_height(bounds))

\* main.py 94-95: apply_scale multiplies every coordinate by the one factor
apply_scale(bounds, f) ==
    << [a \in 1..3 |-> RMul(bounds[1][a], f)], [a \in 1..3 |-> RMul(bounds[2][a], f)] >>

\* main.py 101-102: vertices -= bounds[0]; mesh_size = max - min
Centre(bounds) ==
    << [a \in 1..3 |-> R(0)], [a \in 1..3 |-> RSub(bounds[2][a], bounds[1][a])] >>

Extent(bounds, a) == RSub(bounds[2][a], bounds[1][a])

TargetHeights == {1, 2}                 \* target_height_feet
MeshOrigins == {-1, 0}                  \* lower bound of the loaded mesh on every axis
MeshExtents == {1, 2, 3}                \* extent of the loaded mesh on an axis

InitScaler ==
    \E t \in TargetHeights, h \in {"x", "y", "z"}, o \in MeshOrigins :
      \E ex \in [1..3 -> MeshExtents] :
        scaler = [pc |-> "loaded", target_height_feet |-> t, height_axis |-> h,
                  original |-> << [a \in 1..3 |-> R(o)], [a \in 1..3 |-> R(o + ex[a])] >>,
                  factor |-> R(1),
                  bounds |-> << [a \in 1..3 |-> R(o)], [a \in 1..3 |-> R(o + ex[a])] >>]

\* main.py 91-95
ScaleMesh ==
    /\ scaler.pc = "loaded"
    /\ LET f == scale_factor(scaler.target_height_feet, scaler.original)
       IN  scaler' = [scaler EXCEPT !.pc = "scaled", !.factor = f,
                                    !.bounds = apply_scale(scaler.original, f)]
    /\ UNCHANGED <<planner, slicer, dovetail, server>>

\* main.py 100-102
CentreMesh ==
    /\ scaler.pc = "scaled"
    /\ scaler' = [scaler EXCEPT !.pc = "centred", !.bounds = Centre(scaler.bounds)]
    /\ UNCHANGED <<planner, slicer, dovetail, server>>

InitScale ==
    /\ InitScaler
    /\ planner = PlannerIdle
    /\ slicer = SlicerIdle
    /\ dovetail = DovetailIdle
    /\ server = ServerIdle

NextScale == ScaleMesh \/ CentreMesh

SpecScale == InitScale /\ [][NextScale]_vars

\* C8: after scaling, the extent along the configured height axis equals
\* target_height_feet x 304.8 mm, and all three axes were multiplied by the
\* one factor target / (max[axis] - min[axis]) of that axis.
C8_ScaleCorrect ==
    scaler.pc \in {"scaled", "centred"} =>
        /\ Extent(scaler.bounds, AxisIndex(scaler.height_axis))
              = RMul(R(scaler.target_height_feet), FeetToMm)
        /\ \A a \in 1..3 :
              Extent(scaler.bounds, a)
                = RMul(Extent(scaler.original, a),
                       RDiv(RMul(R(scaler.target_height_feet), FeetToMm),
                            Extent(scaler.original, AxisIndex(scaler.height_axis))))

-----------------------------------------------------------------------------
(* create_dovetail_geometry: dovetailing.py 4-44.                          *)

\* dovetailing.py 8-10: the female block is 5% larger
Enlarge(v) == RMul(v, Norm(21, 20))

\* a female block left at the anchor (mutant of Recess)
RecessForgotten(z_pos, depth) == z_pos

\* dovetailing.py 12: z_pos -= depth, depth being the enlarged depth
Recess(z_pos, depth) == RSub(z_pos, depth)

Half(v) == RDiv(v, R(2))

\* dovetailing.py 28-42: 12 triangles over the 8 vertices (0-based indices)
DovetailFaces ==
    << <<0,1,2>>, <<0,2,3>>, <<4,6,5>>, <<4,7,6>>, <<1,5,6>>, <<1,6,2>>,
       <<4,0,3>>, <<4,3,7>>, <<3,2,6>>, <<3,6,7>>, <<0,5,1>>, <<0,4,5>> >>

create_dovetail_geometry(center_x, center_y, z_pos, width, height, depth, is_male) ==
    LET w == IF is_male THEN width ELSE Enlarge(width)
        h == IF is_male THEN height ELSE Enlarge(height)
        d == IF is_male THEN depth ELSE Enlarge(depth)
        z == IF is_male THEN z_pos ELSE Recess(z_pos, d)
        xl == RSub(center_x, Half(w))
        xh == RAdd(center_x, Half(w))
        yl == RSub(center_y, Half(h))
        yh == RAdd(center_y, Half(h))
    IN  [vertices |-> << <<xl, yl, z>>, <<xh, yl, z>>, <<xh, yh, z>>, <<xl, yh, z>>,
                         <<xl, yl, RAdd(z, d)>>, <<xh, yl, RAdd(z, d)>>,
                         <<xh, yh, RAdd(z, d)>>, <<xl, yh, RAdd(z, d)>> >>,
         faces |-> DovetailFaces]

\* the bounding interval of a block on axis a (1, 2, 3)
BlockMin(block, a) ==
    LET vs == block.vertices
    IN  vs[CHOOSE i \in 1..Len(vs) : \A j \in 1..Len(vs) : RLe(vs[i][a], vs[j][a])][a]

BlockMax(block, a) ==
    LET vs == block.vertices
    IN  vs[CHOOSE i \in 1..Len(vs) : \A j \in 1..Len(vs) : RLe(vs[j][a], vs[i][a])][a]

BlockSize(block, a) == RSub(BlockMax(block, a), BlockMin(block, a))

DovetailCentres == {0, 1}
DovetailAnchors == {-1, 0, 2}
DovetailSizes == {1, 2}

NoBlock == [vertices |-> <<>>, faces |-> <<>>]

InitDovetail ==
    \E cx \in DovetailCentres, cy \in DovetailCentres, z \in DovetailAnchors :
      \E w \in DovetailSizes, h \in DovetailSizes, d \in DovetailSizes :
        dovetail = [pc |-> "start", center_x |-> R(cx), center_y |-> R(cy),
                    z_pos |-> R(z), width |-> R(w), height |-> R(h), depth |-> R(d),
                    male |-> NoBlock, female |-> NoBlock]

\* create_dovetail_geometry(..., True), as at dovetailing.py 186-189
BuildMale ==
    /\ dovetail.pc = "start"
    /\ dovetail' = [dovetail EXCEPT
                      !.pc = "male",
                      !.male = create_dovetail_geometry(dovetail.center_x, dovetail.center_y,
                                   dovetail.z_pos, dovetail.width, dovetail.height,
                                   dovetail.depth, TRUE)]
    /\ UNCHANGED <<planner, slicer, scaler, server>>

\* create_dovetail_geometry(..., False), as at dovetailing.py 191-194
BuildFemale ==
    /\ dovetail.pc = "male"
    /\ dovetail' = [dovetail EXCEPT
                      !.pc = "built",
                      !.female = create_dovetail_geometry(dovetail.center_x, dovetail.center_y,
                                   dovetail.z_pos, dovetail.width, dovetail.height,
                                   dovetail.depth, FALSE)]
    /\ UNCHANGED <<planner, slicer, scaler, server>>

InitDove ==
    /\ InitDovetail
    /\ planner = PlannerIdle
    /\ slicer = SlicerIdle
    /\ scaler = ScalerIdle
    /\ server = ServerIdle

NextDove == BuildMale \/ BuildFemale

SpecDove == InitDove /\ [][NextDove]_vars

\* C9: the female block is at least as large as the male block of the same
\* arguments on each axis, and is recessed by exactly its own depth: it spans
\* [z_pos - depth_female, z_pos], the male block [z_pos, z_pos + depth].
C9_ConnectorClearance ==
    dovetail.pc = "built" =>
        /\ \A a \in 1..3 : RLe(BlockSize(dovetail.male, a), BlockSize(dovetail.female, a))
        /\ BlockMax(dovetail.female, 3) = dovetail.z_pos
        /\ BlockMin(dovetail.female, 3)
              = RSub(dovetail.z_pos, BlockSize(dovetail.female, 3))
        /\ BlockMin(dovetail.male, 3) = dovetail.z_pos
        /\ BlockMax(dovetail.male, 3) = RAdd(dovetail.z_pos, dovetail.depth)
        /\ BlockSize(dovetail.male, 1) = dovetail.width
        /\ BlockSize(dovetail.male, 2) = dovetail.height

\* C9 witness: a built pair whose female block is strictly larger on every
\* axis and lies wholly below the anchor.
C9_Witness ==
    /\ dovetail.pc = "built"
    /\ \A a \in 1..3 : RLt(BlockSize(dovetail.male, a), BlockSize(dovetail.female, a))
    /\ RLt(BlockMin(dovetail.female, 3), dovetail.z_pos)
    /\ dovetail.depth = R(2)

-----------------------------------------------------------------------------
(* split_stl_with_dovetail: dovetailing.py 139-212.                        *)
(* A half of the mesh is seen through the x and y ranges of its triangles  *)
(* (all of them near the cut plane) and through the grid cell that the     *)
(* density score of find_best_dovetail_position ranks best for it.         *)

GridResolution == 50                    \* dovetailing.py 70

Floor(a) == a.num \div a.den            \* int() of a non-negative float

\* dovetailing.py 102-103
search_window(size, lo, hi) ==
    LET w == Floor(RDiv(RMul(R(GridResolution), size), RSub(hi, lo)))
    IN  IF w > 1 THEN w ELSE 1

\* dovetailing.py 71-72: np.linspace(lo, hi, grid_resolution)[i]
GridPos(lo, hi, i) ==
    RAdd(lo, RDiv(RMul(R(i), RSub(hi, lo)), R(GridResolution - 1)))

\* dovetailing.py 46-137: the position for the best-scoring cell (i, j) of
\* the half's grid
find_best_dovetail_position(half, width, height) ==
    [x |-> RAdd(GridPos(R(half.x[1]), R(half.x[2]), half.best[1]), Half(width)),
     y |-> RAdd(GridPos(R(half.y[1]), R(half.y[2]), half.best[2]), Half(height))]

\* dovetailing.py 105-106: the cells the search visits
InSearchRange(half, width, height) ==
    /\ half.best[1] < GridResolution - search_window(width, R(half.x[1]), R(half.x[2]))
    /\ half.best[2] < GridResolution - search_window(height, R(half.y[1]), R(half.y[2]))

\* dovetailing.py 169-177: 8% of the smaller of the two extents
dovetail_size(top_range, bottom_range) ==
    RMul(RMin(R(top_range[2] - top_range[1]), R(bottom_range[2] - bottom_range[1])),
         Norm(2, 25))

\* dovetailing.py 144
z_center(z_range) == RDiv(R(z_range[1] + z_range[2]), R(2))

\* dovetailing.py 179
dovetail_depth(z_range) == RMul(R(z_range[2] - z_range[1]), Norm(1, 10))

MeshHalves ==
    { [x |-> xr, y |-> <<0, 10>>, best |-> b] :
         xr \in {<<0, 10>>, <<2, 8>>}, b \in {<<0, 0>>, <<20, 10>>} }
MeshHeights == {<<0, 10>>, <<-5, 15>>}

NoPosition == [x |-> R(0), y |-> R(0)]

InitSplitter ==
    \E bottom \in MeshHalves, top \in MeshHalves, zr \in MeshHeights :
      LET w == dovetail_size(top.x, bottom.x)
          h == dovetail_size(top.y, bottom.y)
      IN  /\ InSearchRange(bottom, w, h)
          /\ InSearchRange(top, w, h)
          /\ dovetail = [pc |-> "split", bottom |-> bottom, top |-> top,
                         z_center |-> z_center(zr),
                         dovetail_width |-> w, dovetail_height |-> h,
                         dovetail_depth |-> dovetail_depth(zr),
                         bottom_xy |-> NoPosition, top_xy |-> NoPosition,
                         male |-> NoBlock, female |-> NoBlock]

\* dovetailing.py 182
FindBottom ==
    /\ dovetail.pc = "split"
    /\ dovetail' = [dovetail EXCEPT
                      !.pc = "bottom",
                      !.bottom_xy = find_best_dovetail_position(dovetail.bottom,
                                        dovetail.dovetail_width, dovetail.dovetail_height)]
    /\ UNCHANGED <<planner, slicer, scaler, server>>

\* dovetailing.py 183
FindTop ==
    /\ dovetail.pc = "bottom"
    /\ dovetail' = [dovetail EXCEPT
                      !.pc = "top",
                      !.top_xy = find_best_dovetail_position(dovetail.top,
                                     dovetail.dovetail_width, dovetail.dovetail_height)]
    /\ UNCHANGED <<planner, slicer, scaler, server>>

\* dovetailing.py 186-189
SplitMale ==
    /\ dovetail.pc = "top"
    /\ dovetail' = [dovetail EXCEPT
                      !.pc = "male",
                      !.male = create_dovetail_geometry(dovetail.bottom_xy.x,
                                   dovetail.bottom_xy.y, dovetail.z_center,
                                   dovetail.dovetail_width, dovetail.dovetail_height,
                                   dovetail.dovetail_depth, TRUE)]
    /\ UNCHANGED <<planner, slicer, scaler, server>>

\* dovetailing.py 191-194
SplitFemale ==
    /\ dovetail.pc = "male"
    /\ dovetail' = [dovetail EXCEPT
                      !.pc = "paired",
                      !.female = create_dovetail_geometry(dovetail.top_xy.x,
                                     dovetail.top_xy.y, dovetail.z_center,
                                     dovetail.dovetail_width, dovetail.dovetail_height,
                                     dovetail.dovetail_depth, FALSE)]
    /\ UNCHANGED <<planner, slicer, scaler, server>>

InitSplit ==
    /\ InitSplitter
    /\ planner = PlannerIdle
    /\ slicer = SlicerIdle
    /\ scaler = ScalerIdle
    /\ server = ServerIdle

NextSplit == FindBottom \/ FindTop \/ SplitMale \/ SplitFemale

SpecSplit == InitSplit /\ [][NextSplit]_vars

BlockCentre(block, a) == Half(RAdd(BlockMin(block, a), BlockMax(block, a)))

\* C15: the male peg and the female socket of the pair are placed at the same
\* (x, y) center and at the same cut position, for every input mesh.
C15_PairAligned ==
    dovetail.pc = "paired" =>
        /\ dovetail.bottom_xy = dovetail.top_xy
        /\ BlockCentre(dovetail.male, 1) = BlockCentre(dovetail.female, 1)
        /\ BlockCentre(dovetail.male, 2) = BlockCentre(dovetail.female, 2)
        /\ BlockMin(dovetail.male, 3) = dovetail.z_center
        /\ BlockMax(dovetail.female, 3) = dovetail.z_center

-----------------------------------------------------------------------------
(* slice_with_validation and slice_stl_with_connectors: main.py 88-229.    *)

\* main.py 89-102: the extents of the loaded mesh after scaling and centring
ScaledMeshSize(bounds, target_height) ==
    LET b == Centre(apply_scale(bounds, scale_factor(target_height, bounds)))
    IN  [a \in 1..3 |-> Extent(b, a)]

\* main.py 119
max_dimension(bed_size) == RMul(bed_size, Norm(19, 20))

SliceSamples == 10                      \* samples=10, main.py 114-116

\* main.py 114-116, 128-130: the plans one axis can get, over the kernel's
\* answers to the ten sections.  With ten samples the planner's loop always
\* returns, so no plan is lost by leaving <<>> out.
PlanChoices(dim, maxd) ==
    IF required_cuts(dim, maxd) > 1
    THEN {find_optimal_cuts(analyze_cross_sections(R(0), dim, SliceSamples, k), maxd, dim) :
             k \in KernelAnswers(SliceSamples, MaxSpecial)} \ {<<>>}
    ELSE {TrivialCuts(dim)}

\* main.py 138-140
MaxInterval(cuts) ==
    LET i == CHOOSE i \in 1..(Len(cuts) - 1) :
                 \A j \in 1..(Len(cuts) - 1) : RLe(Interval(cuts, j), Interval(cuts, i))
    IN  Interval(cuts, i)

\* main.py 144
PieceTooLarge(x_cuts, y_cuts, z_cuts, maxd) ==
    \/ RLt(maxd, MaxInterval(x_cuts))
    \/ RLt(maxd, MaxInterval(y_cuts))
    \/ RLt(maxd, MaxInterval(z_cuts))

\* main.py 149-150
volume_threshold(original_volume) == RMul(R(original_volume), Norm(1, 1000))
extremity_volume_threshold(original_volume) == RMul(R(original_volume), Norm(1, 10000))

\* main.py 159-160: the box of cell (i, j, k), indices from 0
CellBounds(x_cuts, y_cuts, z_cuts, cell) ==
    << <<x_cuts[cell[1] + 1], y_cuts[cell[2] + 1], z_cuts[cell[3] + 1]>>,
       <<x_cuts[cell[1] + 2], y_cuts[cell[2] + 2], z_cuts[cell[3] + 2]>> >>

\* main.py 173-174
has_extremity(bounds, extremity_points) ==
    \E pt \in extremity_points :
        \A a \in 1..3 : RLe(bounds[1][a], pt[a]) /\ RLe(pt[a], bounds[2][a])

\* main.py 177-178
current_threshold(original_volume, ext) ==
    IF ext THEN extremity_volume_threshold(original_volume)
    ELSE volume_threshold(original_volume)

\* main.py 180
KeepPart(volume, threshold, ext) == RLt(threshold, R(volume)) \/ ext

\* main.py 156-158: the cell after `cell` in the nested loops, <<>> at the end
NextCell(cell, nx, ny, nz) ==
    IF cell[3] + 1 < nz THEN <<cell[1], cell[2], cell[3] + 1>>
    ELSE IF cell[2] + 1 < ny THEN <<cell[1], cell[2] + 1, 0>>
    ELSE IF cell[1] + 1 < nx THEN <<cell[1] + 1, 0, 0>>
    ELSE <<>>

\* an exception that leaves the loops (mutant of AfterCell)
AfterCellAbort(answer, nxt) == IF answer.kind = "error" THEN <<>> ELSE nxt

\* main.py 193-194: the handler prints, and the loops go on with the next cell
AfterCell(answer, nxt) == nxt

\* a validation that forgets the absolute value (mutant of VolumeLost)
VolumeLostOneSided(total, original_volume) ==
    (original_volume - total) * 100 > original_volume

\* main.py 197-200: abs(1 - total / original) > 0.01
VolumeLost(total, original_volume) ==
    Abs(original_volume - total) * 100 > original_volume

\* files numbered from 1 (mutant of Export)
ExportFromOne(files, sliced_parts, attempt) ==
    [n \in 1..(IF Len(files) > Len(sliced_parts) THEN Len(files) ELSE Len(sliced_parts)) |->
        IF n <= Len(sliced_parts)
        THEN [idx |-> n, part |-> sliced_parts[n], attempt |-> attempt]
        ELSE files[n]]

\* main.py 208-210: part_{idx}.stl is written for every kept part; a file of
\* another name already in the directory stays
Export(files, sliced_parts, attempt) ==
    [n \in 1..(IF Len(files) > Len(sliced_parts) THEN Len(files) ELSE Len(sliced_parts)) |->
        IF n <= Len(sliced_parts)
        THEN [idx |-> n - 1, part |-> sliced_parts[n], attempt |-> attempt]
        ELSE files[n]]

\* a retry that shrinks the bed by 10% (mutant of ReducedBed)
ReducedBedTenth(bed_size) == RMul(bed_size, Norm(9, 10))

\* main.py 226
ReducedBed(bed_size) == RMul(bed_size, Norm(19, 20))

\* a final test that is off by one (mutant of AttemptsExhausted)
AttemptsExhaustedOffByOne(attempt, max_attempts) == attempt >= max_attempts

\* main.py 228
AttemptsExhausted(attempt, max_attempts) == attempt > max_attempts

FailureMessage == "Failed to find valid slicing solution after maximum attempts"
SuccessMessage == "Slicing completed successfully!"

\* main.py 228-229
AfterLoop(printed, attempt, max_attempts) ==
    IF AttemptsExhausted(attempt, max_attempts) THEN printed \cup {FailureMessage}
    ELSE printed

(* Inputs of a slicing run.                                                *)
SliceJobs ==
    { [extents |-> <<1, 1, 1>>, target_height |-> 1],
      [extents |-> <<2, 1, 1>>, target_height |-> 1],
      [extents |-> <<1, 2, 1>>, target_height |-> 1],
      [extents |-> <<1, 1, 2>>, target_height |-> 2] }
PrinterBedSizes == {360}
SafetyMargins == {5, 50}
AttemptCaps == {1, 3}                   \* max_attempts; 3 by default, main.py 217
MeshVolumes == {10000}                  \* volume of the scaled mesh
CellVolumes == {1, 5000, 5040, 10000}   \* volume of a non-empty intersection
\* extremity points, as fractions of the mesh size: none, or one tip at the
\* top of the mesh above the origin corner
TipSets == { {}, {<<0, 0, 1>>} }

\* what the kernel answers for a cell: an exception (main.py 193), an empty
\* intersection (172), or a part of some volume
CellAnswers ==
    {[kind |-> "error", volume |-> 0], [kind |-> "empty", volume |-> 0]}
        \cup {[kind |-> "part", volume |-> v] : v \in CellVolumes}

NoCuts == <<>>

\* no cell has been intersected yet in this call
NoAnswer == [kind |-> "none", volume |-> 0]

InitSlicer ==
    \E job \in SliceJobs, bed \in PrinterBedSizes, margin \in SafetyMargins :
      \E cap \in AttemptCaps, vol \in MeshVolumes, tips \in TipSets, ok \in BOOLEAN :
        slicer = [pc |-> "loop",
                  \* the caller's configuration and the file
                  printer_bed_size |-> bed, safety_margin |-> margin,
                  target_height |-> job.target_height,
                  stl |-> << [a \in 1..3 |-> R(-1)], [a \in 1..3 |-> R(job.extents[a] - 1)] >>,
                  loadable |-> ok, volume |-> vol, tips |-> tips,
                  \* slice_with_validation
                  max_attempts |-> cap, attempt |-> 1, bed_size |-> R(bed),
                  printed |-> {}, attempts |-> <<>>, result |-> "none", last_total |-> 0,
                  \* the call of slice_stl_with_connectors in progress
                  max_dimension |-> R(0), x_cuts |-> NoCuts, y_cuts |-> NoCuts,
                  z_cuts |-> NoCuts, cell |-> <<>>, answer |-> NoAnswer,
                  sliced_parts |-> <<>>, total_sliced_volume |-> 0,
                  \* the output directory
                  files |-> <<>>]

mesh_size == ScaledMeshSize(slicer.stl, slicer.target_height)

extremity_points ==
    { <<RMul(R(t[1]), mesh_size[1]), RMul(R(t[2]), mesh_size[2]),
        RMul(R(t[3]), mesh_size[3])>> : t \in slicer.tips }

Enter == slicer.pc = "loop" /\ slicer.attempt <= slicer.max_attempts

\* the locals of a call that returned False are not carried into the next
\* attempt; those of the accepted call stay on record
Returned(s) ==
    [s EXCEPT !.max_dimension = R(0), !.x_cuts = NoCuts, !.y_cuts = NoCuts,
              !.z_cuts = NoCuts, !.cell = <<>>, !.answer = NoAnswer,
              !.sliced_parts = <<>>, !.total_sliced_volume = 0]

\* a call that exports its parts before validating them (mutant of Rejected)
RejectedAfterExport(s, why, total) ==
    [Returned(s) EXCEPT !.pc = "loop", !.attempt = s.attempt + 1,
                        !.bed_size = ReducedBed(s.bed_size),
                        !.result = why, !.last_total = total,
                        !.files = Export(s.files, s.sliced_parts, s.attempt)]

\* main.py 224-226 after a call that returned False
Rejected(s, why, total) ==
    [Returned(s) EXCEPT !.pc = "loop", !.attempt = s.attempt + 1,
                        !.bed_size = ReducedBed(s.bed_size),
                        !.result = why, !.last_total = total]

Logged(s) == Append(s.attempts, [bed_size |-> s.bed_size, accepted |-> FALSE])

\* main.py 89: the mesh cannot be loaded; the exception leaves slice_with_validation
LoadFails ==
    /\ Enter
    /\ ~slicer.loadable
    /\ slicer' = [slicer EXCEPT !.pc = "raised", !.attempts = Logged(slicer),
                                !.result = "raised"]
    /\ UNCHANGED <<planner, scaler, dovetail, server>>

\* main.py 219-221, 89-146: the plan has a piece above max_dimension; the call
\* returns False and the loop goes on (224-226)
PlanRejected ==
    /\ Enter
    /\ slicer.loadable
    /\ LET maxd == max_dimension(slicer.bed_size)
       IN  \E xc \in PlanChoices(mesh_size[1], maxd), yc \in PlanChoices(mesh_size[2], maxd),
              zc \in PlanChoices(mesh_size[3], maxd) :
             /\ PieceTooLarge(xc, yc, zc, maxd)
             /\ slicer' = Rejected([slicer EXCEPT !.attempts = Logged(slicer)], "size", 0)
    /\ UNCHANGED <<planner, scaler, dovetail, server>>

\* main.py 219-221, 89-153: the plan passes; the cell loop is entered
PlanAccepted ==
    /\ Enter
    /\ slicer.loadable
    /\ LET maxd == max_dimension(slicer.bed_size)
       IN  \E xc \in PlanChoices(mesh_size[1], maxd), yc \in PlanChoices(mesh_size[2], maxd),
              zc \in PlanChoices(mesh_size[3], maxd) :
             /\ ~PieceTooLarge(xc, yc, zc, maxd)
             /\ slicer' = [slicer EXCEPT !.pc = "cells", !.attempts = Logged(slicer),
                                         !.max_dimension = maxd,
                                         !.x_cuts = xc, !.y_cuts = yc, !.z_cuts = zc,
                                         !.cell = <<0, 0, 0>>, !.sliced_parts = <<>>,
                                         !.total_sliced_volume = 0]
    /\ UNCHANGED <<planner, scaler, dovetail, server>>

\* main.py 159-194: one pass of the innermost loop, on the kernel's answer
\* for this cell
ProcessCell ==
    /\ slicer.pc = "cells"
    /\ \E answer \in CellAnswers :
         LET bounds == CellBounds(slicer.x_cuts, slicer.y_cuts, slicer.z_cuts, slicer.cell)
             ext    == has_extremity(bounds, extremity_points)
             keep   == /\ answer.kind = "part"
                       /\ KeepPart(answer.volume, current_threshold(slicer.volume, ext), ext)
             nxt    == AfterCell(answer,
                                 NextCell(slicer.cell, Len(slicer.x_cuts) - 1,
                                          Len(slicer.y_cuts) - 1, Len(slicer.z_cuts) - 1))
         IN  slicer' = [slicer EXCEPT
                 !.sliced_parts =
                     IF keep THEN Append(@, [position |-> slicer.cell, bounds |-> bounds,
                                             has_extremity |-> ext, volume |-> answer.volume])
                     ELSE @,
                 !.total_sliced_volume = IF keep THEN @ + answer.volume ELSE @,
                 !.cell = nxt,
                 !.answer = answer,
                 !.pc = IF nxt = <<>> THEN "validate" ELSE "cells"]
    /\ UNCHANGED <<planner, scaler, dovetail, server>>

\* main.py 196-205, 224-226: the volume is off; the call returns False
VolumeRejected ==
    /\ slicer.pc = "validate"
    /\ VolumeLost(slicer.total_sliced_volume, slicer.volume)
    /\ slicer' = Rejected(slicer, "volume", slicer.total_sliced_volume)
    /\ UNCHANGED <<planner, scaler, dovetail, server>>

\* main.py 196-214, 221-223, 228-229: the parts are exported, the call returns
\* True, the loop is left by break
VolumeAccepted ==
    /\ slicer.pc = "validate"
    /\ ~VolumeLost(slicer.total_sliced_volume, slicer.volume)
    /\ slicer' = [slicer EXCEPT
                    !.pc = "done",
                    !.files = Export(slicer.files, slicer.sliced_parts, slicer.attempt),
                    !.attempts = [@ EXCEPT ![Len(@)].accepted = TRUE],
                    !.result = "ok", !.last_total = slicer.total_sliced_volume,
                    !.printed = AfterLoop(@ \cup {SuccessMessage}, slicer.attempt,
                                          slicer.max_attempts)]
    /\ UNCHANGED <<planner, scaler, dovetail, server>>

\* main.py 219, 228-229: the attempts are used up
GiveUp ==
    /\ slicer.pc = "loop"
    /\ ~(slicer.attempt <= slicer.max_attempts)
    /\ slicer' = [slicer EXCEPT !.pc = "done",
                                !.printed = AfterLoop(@, slicer.attempt, slicer.max_attempts)]
    /\ UNCHANGED <<planner, scaler, dovetail, server>>

Init ==
    /\ InitSlicer
    /\ planner = PlannerIdle
    /\ scaler = ScalerIdle
    /\ dovetail = DovetailIdle
    /\ server = ServerIdle

Next ==
    \/ LoadFails
    \/ PlanRejected
    \/ PlanAccepted
    \/ ProcessCell
    \/ VolumeRejected
    \/ VolumeAccepted
    \/ GiveUp

Spec == Init /\ [][Next]_vars

-----------------------------------------------------------------------------
(* The /process endpoint: process_stl_endpoint, app.py 41-187.             *)
(* Each request in flight has its own position in the handler; the          *)
(* temporary root holds one directory per request (tempfile.mkdtemp).       *)

Requests == {1, 2}

\* what trimesh reports of an uploaded mesh
Meshes ==
    { [loads |-> TRUE,  is_watertight |-> TRUE,  is_volume |-> TRUE],
      [loads |-> TRUE,  is_watertight |-> FALSE, is_volume |-> FALSE],
      [loads |-> TRUE,  is_watertight |-> TRUE,  is_volume |-> FALSE],
      [loads |-> FALSE, is_watertight |-> FALSE, is_volume |-> FALSE] }

SolidMesh == [loads |-> TRUE, is_watertight |-> TRUE, is_volume |-> TRUE]

Uploads ==
    { [has_file |-> TRUE, is_stl |-> TRUE, too_large |-> FALSE,
       params_ok |-> TRUE, mesh |-> m] : m \in Meshes }
    \cup
    { [has_file |-> FALSE, is_stl |-> FALSE, too_large |-> FALSE,
       params_ok |-> TRUE, mesh |-> SolidMesh],
      [has_file |-> TRUE, is_stl |-> FALSE, too_large |-> FALSE,
       params_ok |-> TRUE, mesh |-> SolidMesh],
      [has_file |-> TRUE, is_stl |-> TRUE, too_large |-> TRUE,
       params_ok |-> TRUE, mesh |-> SolidMesh],
      [has_file |-> TRUE, is_stl |-> TRUE, too_large |-> FALSE,
       params_ok |-> FALSE, mesh |-> SolidMesh] }

\* app.py 48-62: the three refusals before any directory is made
upload_error(upload) ==
    IF ~upload.has_file THEN "No file provided"
    ELSE IF ~upload.is_stl THEN "File must be STL format"
    ELSE IF upload.too_large THEN "File too large - maximum size is 100MB"
    ELSE ""

\* app.py 18-39; readable: the saved original is still on disk
validate_stl_manifold(readable, mesh) ==
    IF ~readable \/ ~mesh.loads
    THEN [is_valid |-> FALSE, error_message |-> "Error validating mesh"]
    ELSE IF ~mesh.is_watertight
    THEN [is_valid |-> FALSE, error_message |-> "Model contains non-manifold edges"]
    ELSE IF ~mesh.is_volume
    THEN [is_valid |-> FALSE, error_message |-> "Model has inconsistent face normals"]
    ELSE [is_valid |-> TRUE, error_message |-> ""]

NoWarning == [warning |-> "", details |-> "", action_needed |-> ""]

\* app.py 93-99
warning_message(validation) ==
    IF ~validation.is_valid
    THEN [warning |-> "Non-manifold edges detected",
          details |-> validation.error_message,
          action_needed |->
            "You may need to repair this model in your slicing software before printing"]
    ELSE NoWarning

\* the engine entry point imported by app.py 6 and called at app.py 113: it
\* returns the output directory or raises; a missing input is a load failure
EngineOutcomes == {"returned", "raised"}
process_stl(input_present, outcome) ==
    IF input_present THEN outcome ELSE "raised"

NoArchive == [made |-> FALSE, pieces |-> FALSE, original |-> FALSE, warning |-> NoWarning]

ArchiveWithoutWarning(dir, warning) ==
    [made |-> TRUE, pieces |-> dir.pieces, original |-> dir.original,
     warning |-> NoWarning]

\* app.py 122-141: the fragments, the original files and, if there is a
\* warning, processing_warning.txt
ArchiveEntries(dir, warning) ==
    [made |-> TRUE, pieces |-> dir.pieces, original |-> dir.original,
     warning |-> IF warning # NoWarning THEN dir.warning_file ELSE NoWarning]

NoDir == [exists |-> FALSE, old |-> FALSE, original |-> FALSE, pieces |-> FALSE,
          warning_file |-> NoWarning, zip |-> NoArchive]

NewRequest(upload) ==
    [pc |-> "received", upload |-> upload, is_valid |-> TRUE,
     warning_message |-> NoWarning, decomposed |-> FALSE,
     status |-> 0, error |-> "", archive |-> NoArchive]

InitServer ==
    \E uploads \in [Requests -> Uploads] :
        server = [req |-> [r \in Requests |-> NewRequest(uploads[r])],
                  temp_root |-> [r \in Requests |-> NoDir]]

\* app.py 179-187: remove the request's directory, answer 500 with the message
Fail(r, e) ==
    server' = [server EXCEPT
                 !.req[r].pc = "closed",
                 !.req[r].status = 500,
                 !.req[r].error = e,
                 !.temp_root[r] = NoDir]

OthersIdle ==
    UNCHANGED <<planner, slicer, scaler, dovetail>>

\* app.py 48-62
Refuse(r) ==
    /\ server.req[r].pc = "received"
    /\ upload_error(server.req[r].upload) # ""
    /\ server' = [server EXCEPT
                    !.req[r].pc = "closed",
                    !.req[r].status = 400,
                    !.req[r].error = upload_error(server.req[r].upload)]
    /\ OthersIdle

\* app.py 65-89: mkdtemp, the form parameters, the original and its metadata
SaveOriginal(r) ==
    /\ server.req[r].pc = "received"
    /\ upload_error(server.req[r].upload) = ""
    /\ IF ~server.req[r].upload.params_ok
       THEN Fail(r, "could not convert string to float")
       ELSE server' = [server EXCEPT
                         !.req[r].pc = "validate",
                         !.temp_root[r] = [NoDir EXCEPT !.exists = TRUE,
                                                        !.original = TRUE]]
    /\ OthersIdle

\* app.py 92-100
Validate(r) ==
    /\ server.req[r].pc = "validate"
    /\ LET validation == validate_stl_manifold(server.temp_root[r].original,
                                               server.req[r].upload.mesh)
       IN server' = [server EXCEPT
                       !.req[r].pc = "process",
                       !.req[r].is_valid = validation.is_valid,
                       !.req[r].warning_message = warning_message(validation)]
    /\ OthersIdle

\* app.py 103-113
Process(r) ==
    /\ server.req[r].pc = "process"
    /\ \E outcome \in EngineOutcomes :
         IF process_stl(server.temp_root[r].original, outcome) = "raised"
         THEN Fail(r, "engine error")
         ELSE server' = [server EXCEPT
                           !.req[r].pc = "warn",
                           !.req[r].decomposed = TRUE,
                           !.temp_root[r].pieces = TRUE]
    /\ OthersIdle

\* app.py 116-119
WriteWarning(r) ==
    /\ server.req[r].pc = "warn"
    /\ IF server.req[r].warning_message = NoWarning
       THEN server' = [server EXCEPT !.req[r].pc = "zip"]
       ELSE IF ~server.temp_root[r].exists
       THEN Fail(r, "No such file or directory")
       ELSE server' = [server EXCEPT
                         !.req[r].pc = "zip",
                         !.temp_root[r].warning_file = server.req[r].warning_message,
                         !.temp_root[r].old = FALSE]
    /\ OthersIdle

\* app.py 122-141
Zip(r) ==
    /\ server.req[r].pc = "zip"
    /\ IF ~server.temp_root[r].exists
       THEN Fail(r, "No such file or directory")
       ELSE server' = [server EXCEPT
                         !.req[r].pc = "send",
                         !.temp_root[r].zip =
                             ArchiveEntries(server.temp_root[r],
                                            server.req[r].warning_message),
                         !.temp_root[r].old = FALSE]
    /\ OthersIdle

\* app.py 143-148, 177
Send(r) ==
    /\ server.req[r].pc = "send"
    /\ IF ~server.temp_root[r].zip.made
       THEN Fail(r, "No such file or directory")
       ELSE server' = [server EXCEPT
                         !.req[r].pc = "sent",
                         !.req[r].status = 200,
                         !.req[r].archive = server.temp_root[r].zip]
    /\ OthersIdle

\* app.py 151-175: the request's own directory, then everything in the
\* temporary root created more than an hour ago
cleanup(r) ==
    /\ server.req[r].pc = "sent"
    /\ server' = [server EXCEPT
                    !.req[r].pc = "closed",
                    !.temp_root = [q \in Requests |->
                                     IF q = r \/ server.temp_root[q].old
                                     THEN NoDir ELSE server.temp_root[q]]]
    /\ OthersIdle

\* an hour goes by: what is in the temporary root is now older than an hour
\* (getctime, app.py 164), until a file is created in it again
HourPasses ==
    /\ \E q \in Requests : server.temp_root[q].exists /\ ~server.temp_root[q].old
    /\ server' = [server EXCEPT
                    !.temp_root = [q \in Requests |->
                                     IF server.temp_root[q].exists
                                     THEN [server.temp_root[q] EXCEPT !.old = TRUE]
                                     ELSE server.temp_root[q]]]
    /\ OthersIdle

InitApp ==
    /\ InitServer
    /\ planner = PlannerIdle
    /\ slicer = SlicerIdle
    /\ scaler = ScalerIdle
    /\ dovetail = DovetailIdle

NextApp ==
    \/ \E r \in Requests : Refuse(r)
    \/ \E r \in Requests : SaveOriginal(r)
    \/ \E r \in Requests : Validate(r)
    \/ \E r \in Requests : Process(r)
    \/ \E r \in Requests : WriteWarning(r)
    \/ \E r \in Requests : Zip(r)
    \/ \E r \in Requests : Send(r)
    \/ \E r \in Requests : cleanup(r)
    \/ HourPasses

SpecApp == InitApp /\ [][NextApp]_vars

PassesValidation(mesh) == mesh.loads /\ mesh.is_watertight /\ mesh.is_volume

\* C10: a mesh that fails validation does not make the endpoint fail for that
\* reason: decomposition is run whatever the validation said, and every
\* archive returned for such a mesh holds a warning record of kind
\* 'Non-manifold edges detected' with details and a suggested action; an
\* archive returned for a mesh that passes validation holds none.
C10_WarningSurfaced ==
    \A r \in Requests :
      LET q == server.req[r] IN
        /\ q.pc \in {"warn", "zip", "send", "sent"} => q.decomposed
        /\ q.status = 200 =>
              /\ q.decomposed
              /\ q.archive.made
              /\ PassesValidation(q.upload.mesh) => q.archive.warning = NoWarning
              /\ ~PassesValidation(q.upload.mesh) =>
                    /\ q.archive.warning.warning = "Non-manifold edges detected"
                    /\ q.archive.warning.details # ""
                    /\ q.archive.warning.action_needed # ""
        /\ q.status = 500 =>
              q.error \notin {"Error validating mesh",
                              "Model contains non-manifold edges",
                              "Model has inconsistent face normals"}

\* C10 witness: an archive was returned for a mesh that is not watertight, and
\* it holds the warning record.
C10_Witness ==
    \E r \in Requests :
      /\ server.req[r].status = 200
      /\ ~server.req[r].upload.mesh.is_watertight
      /\ server.req[r].upload.mesh.loads
      /\ server.req[r].archive.warning.warning = "Non-manifold edges detected"
      /\ server.req[r].archive.pieces

\* C17: with two or more requests in flight, the completion and cleanup of
\* one request never deletes or changes the working directory of a request
\* still in progress: its original, its fragments and its archive stay where
\* the request put them, however long it has been running.
C17_RequestIsolation ==
    \A q \in Requests :
      LET dir == server.temp_root[q] IN
        /\ server.req[q].pc \in {"validate", "process", "warn", "zip", "send", "sent"}
              => dir.exists /\ dir.original
        /\ server.req[q].pc \in {"warn", "zip", "send", "sent"} => dir.pieces
        /\ server.req[q].pc \in {"send", "sent"} => dir.zip.made

-----------------------------------------------------------------------------
(* Properties of slice_with_validation, checked under Spec.                *)

RECURSIVE RPow(_, _)
RPow(r, k) == IF k = 0 THEN R(1) ELSE RMul(r, RPow(r, k - 1))

RECURSIVE SumVolumes(_)
SumVolumes(fs) == IF fs = <<>> THEN 0 ELSE Head(fs).part.volume + SumVolumes(Tail(fs))

\* printer_bed_size - safety_margin of the caller's configuration
BedEnvelope == R(slicer.printer_bed_size - slicer.safety_margin)

\* C1: an exported fragment has every bounding-box dimension at most
\* printer_bed_size - safety_margin, and an attempt whose plan has an interval
\* above that size exports nothing.
C1_BedFit ==
    /\ \A n \in 1..Len(slicer.files) : \A a \in 1..3 :
          RLe(RSub(slicer.files[n].part.bounds[2][a], slicer.files[n].part.bounds[1][a]),
              BedEnvelope)
    /\ (slicer.result = "ok" /\ slicer.files # <<>>)
          => ~PieceTooLarge(slicer.x_cuts, slicer.y_cuts, slicer.z_cuts, BedEnvelope)

\* C2: a decomposition is accepted (its fragments exported) only if the summed
\* volume of the kept fragments is within 1% of the volume of the scaled
\* mesh; an attempt that reaches the validation outside that band is rejected.
C2_VolumeConserved ==
    /\ slicer.result = "ok" =>
          /\ slicer.last_total = SumVolumes(slicer.files)
          /\ Abs(slicer.volume - slicer.last_total) * 100 <= slicer.volume
    /\ slicer.result = "volume" =>
          /\ Abs(slicer.volume - slicer.last_total) * 100 > slicer.volume
          /\ slicer.files = <<>>
    /\ slicer.files # <<>> => slicer.result = "ok"

\* C2 witness: an accepted decomposition of two or more fragments whose summed
\* volume is above the original, inside the tolerance.
C2_Witness ==
    /\ slicer.result = "ok"
    /\ Len(slicer.files) >= 2
    /\ slicer.last_total > slicer.volume

\* C6: at most max_attempts attempts are made, none after an accepted one;
\* attempt k runs with the initial bed size times 0.95^(k-1), the bed being
\* reduced after each rejected attempt and only then.
C6_BoundedRetry ==
    /\ Len(slicer.attempts) <= slicer.max_attempts
    /\ \A k \in 1..Len(slicer.attempts) :
          /\ slicer.attempts[k].bed_size
                = RMul(R(slicer.printer_bed_size), RPow(Norm(19, 20), k - 1))
          /\ (k < Len(slicer.attempts) => ~slicer.attempts[k].accepted)
    /\ slicer.bed_size
          = RMul(R(slicer.printer_bed_size), RPow(Norm(19, 20), slicer.attempt - 1))
    /\ slicer.pc \in {"cells", "validate"} => slicer.attempt = Len(slicer.attempts)
    /\ slicer.pc = "loop" => slicer.attempt = Len(slicer.attempts) + 1
    /\ slicer.pc = "done" =>
          \/ slicer.attempts[Len(slicer.attempts)].accepted
          \/ Len(slicer.attempts) = slicer.max_attempts

\* C6 witness: the third attempt, on a bed twice reduced, is the accepted one.
C6_Witness ==
    /\ slicer.pc = "done"
    /\ Len(slicer.attempts) = 3
    /\ slicer.attempts[3].accepted
    /\ slicer.attempts[3].bed_size = Norm(360 * 361, 400)

AnyAccepted == \E k \in 1..Len(slicer.attempts) : slicer.attempts[k].accepted

\* C7: when every attempt up to the cap is rejected by validation the run ends
\* with the failure message, not an exception; the message is printed only
\* if no attempt was accepted.
C7_FailureReported ==
    /\ slicer.attempt > slicer.max_attempts =>
          /\ slicer.pc \in {"loop", "done"}
          /\ ~AnyAccepted
          /\ (slicer.pc = "done" => FailureMessage \in slicer.printed)
    /\ FailureMessage \in slicer.printed => ~AnyAccepted /\ slicer.pc = "done"
    /\ (slicer.pc = "done" /\ ~AnyAccepted) => FailureMessage \in slicer.printed
    /\ slicer.pc = "raised" => ~slicer.loadable

\* C7 witness: three attempts, the last rejected by the volume validation, and
\* the failure message printed.
C7_Witness ==
    /\ slicer.pc = "done"
    /\ slicer.max_attempts = 3
    /\ Len(slicer.attempts) = 3
    /\ slicer.result = "volume"
    /\ slicer.printed = {FailureMessage}

\* the threshold the claim gives a cell: 0.01% of the original volume with an
\* extremity point, 0.1% without
ApplicableThreshold(ext) ==
    IF ext THEN RMul(R(slicer.volume), Norm(1, 10000))
    ELSE RMul(R(slicer.volume), Norm(1, 1000))

RECURSIVE SumParts(_)
SumParts(ps) == IF ps = <<>> THEN 0 ELSE Head(ps).volume + SumParts(Tail(ps))

\* C12: a non-empty intersection is kept exactly when its volume exceeds the
\* threshold that applies to it (0.1% of the original volume, 0.01% for a
\* cell with an extremity point); one at or below it is dropped and adds
\* nothing to the summed volume.
C12_KeptAboveThreshold ==
    /\ \A n \in 1..Len(slicer.sliced_parts) :
          RLt(ApplicableThreshold(slicer.sliced_parts[n].has_extremity),
              R(slicer.sliced_parts[n].volume))
    /\ slicer.total_sliced_volume = SumParts(slicer.sliced_parts)
    /\ (slicer.answer.kind = "part"
          /\ RLt(ApplicableThreshold(FALSE), R(slicer.answer.volume)))
          => /\ slicer.sliced_parts # <<>>
             /\ slicer.sliced_parts[Len(slicer.sliced_parts)].volume = slicer.answer.volume

\* C14: a failed intersection on one cell does not abort the attempt: the
\* failed cell adds no fragment and no volume, the loops go on with the next
\* cell of the grid, nothing is exported or rejected by the failure itself,
\* and the validation is reached only after the last cell.
C14_CellFailureContained ==
    [][(slicer.pc = "cells" /\ slicer'.answer.kind = "error") =>
          /\ slicer'.sliced_parts = slicer.sliced_parts
          /\ slicer'.total_sliced_volume = slicer.total_sliced_volume
          /\ slicer'.cell = NextCell(slicer.cell, Len(slicer.x_cuts) - 1,
                                     Len(slicer.y_cuts) - 1, Len(slicer.z_cuts) - 1)
          /\ slicer'.pc = (IF slicer'.cell = <<>> THEN "validate" ELSE "cells")
          /\ slicer'.attempt = slicer.attempt
          /\ slicer'.files = slicer.files
          /\ slicer'.result = slicer.result]_vars

\* C14 witness: in a grid of two cells the second intersection failed, and
\* the attempt was accepted on the volume of the first.
C14_Witness ==
    /\ slicer.pc = "done"
    /\ slicer.result = "ok"
    /\ slicer.answer.kind = "error"
    /\ Len(slicer.y_cuts) = 3
    /\ Len(slicer.files) = 1
    /\ slicer.files[1].part.position = <<0, 0, 0>>

LexLess(p, q) ==
    \/ p[1] < q[1]
    \/ p[1] = q[1] /\ p[2] < q[2]
    \/ p[1] = q[1] /\ p[2] = q[2] /\ p[3] < q[3]

C18_NoPartialExport ==
    /\ \A n \in 1..Len(slicer.files) :
          /\ slicer.files[n].attempt = Len(slicer.attempts)
          /\ slicer.attempts[Len(slicer.attempts)].accepted
    /\ slicer.result \in {"size", "volume"} => slicer.files = <<>>
    /\ (slicer.pc = "done" /\ ~AnyAccepted) => slicer.files = <<>>

\* C18 witness: an attempt was rejected on its volume with parts in hand, a
\* later attempt was accepted, and only its files are there.
C18_Witness ==
    /\ slicer.pc = "done"
    /\ Len(slicer.attempts) = 2
    /\ slicer.files # <<>>
    /\ \A n \in 1..Len(slicer.files) : slicer.files[n].attempt = 2

-----------------------------------------------------------------------------
(* Properties of the cut planner, checked under SpecCuts.                  *)

PlanReturned == planner.pc = "done"

\* C3: every pair of consecutive cut positions returned by find_optimal_cuts
\* differs by at most the maximum piece size.
C3_IntervalsWithinMax ==
    PlanReturned =>
        \A i \in 1..(Len(planner.cuts) - 1) :
            RLe(Interval(planner.cuts, i), planner.max_size)

\* C4: the plan of an axis defines at least ceil(extent / max_piece_size)
\* pieces.
C4_PieceCountLowerBound ==
    PlanReturned =>
        Len(planner.cuts) - 1 >= Ceil(RDiv(planner.mesh_size, planner.max_size))

\* C5: the plan of an axis starts at 0, is strictly increasing and ends
\* exactly at the extent; an axis needing at most one piece gets [0, L].
C5_PlanShape ==
    PlanReturned =>
        /\ Len(planner.cuts) >= 2
        /\ planner.cuts[1] = R(0)
        /\ \A i \in 1..(Len(planner.cuts) - 1) :
               RLt(planner.cuts[i], planner.cuts[i + 1])
        /\ planner.cuts[Len(planner.cuts)] = planner.mesh_size
        /\ (Ceil(RDiv(planner.mesh_size, planner.max_size)) <= 1
               => planner.cuts = <<R(0), planner.mesh_size>>)

\* C5 witness: a returned plan of three or more pieces whose first cut is a
\* sample position off the ideal position.
C5_Witness ==
    /\ PlanReturned
    /\ Len(planner.cuts) >= 4
    /\ planner.cuts[2] # target_size(planner.max_size, planner.mesh_size)
    /\ \E i \in 1..Len(planner.sections) : planner.sections[i].pos = planner.cuts[2]

\* find_optimal_cuts, once entered, keeps running: a pass of its loop that can
\* be taken is taken, and so is the exit of the loop
SpecCutsFair == SpecCuts /\ WF_vars(PlanStep) /\ WF_vars(PlanFinish)

\* C11: find_optimal_cuts terminates for every extent, maximum piece size and
\* sample sequence: once entered, the walk reaches the extent and the call
\* returns its plan.
C11_PlannerTerminates == (planner.pc = "loop") ~> PlanReturned

\* C13: analyze_cross_sections returns exactly N samples, one per equally
\* spaced position from minimum to maximum, in increasing order; a position
\* without a valid section (none, or none with a planar form) has area 0.
C13_SamplesComplete ==
    planner.pc # "analyze" =>
        /\ Len(planner.sections) = planner.samples
        /\ \A j \in 1..Len(planner.sections) :
              /\ j <= planner.samples =>
                    /\ planner.sections[j].pos
                          = LinspacePos(R(0), planner.mesh_size, planner.samples, j - 1)
                    /\ (planner.kernel[j - 1].kind # "area"
                           => planner.sections[j].area = 0)
              /\ j > 1 => RLt(planner.sections[j - 1].pos, planner.sections[j].pos)

=============================================================================
